---- MODULE Spec2Model ----
(***************************************************************************)
(* A model of src/database.py: LocalDatabase, a key/value store kept in    *)
(* one JSON file.  Every operation opens the file, loads the whole         *)
(* document, walks a '/'-separated key path and, when it mutates, writes   *)
(* the whole document back.                                                *)
(*                                                                         *)
(* Strings are sequences of one-character strings.  Python values are      *)
(* tagged records: Str(s), None, PyTrue, Dict(d) with d a function from    *)
(* key strings to values.  A file is the sequence of characters json.dump  *)
(* writes, without the insignificant whitespace of indent=4; the token     *)
(* "null" is kept as one element.                                          *)
(***************************************************************************)
EXTENDS Integers, Sequences, FiniteSets, TLC

\* Bounds of the model.
MaxKeyLen == 3
MaxOps == 1

\* The characters a raw key is drawn from: a letter, the separator, a blank.
Alphabet == {"a", "/", " "}

RECURSIVE StringsUpTo(_)
StringsUpTo(n) ==
    IF n = 0 THEN {<<>>}
    ELSE LET shorter == StringsUpTo(n - 1)
         IN  shorter \cup {Append(s, c) : s \in {t \in shorter : Len(t) = n - 1}, c \in Alphabet}

RawKeys == StringsUpTo(MaxKeyLen)

----------------------------------------------------------------------------
\* Python values.

Str(s) == [t |-> "str", s |-> s]
None == [t |-> "none"]
PyTrue == [t |-> "true"]
Dict(d) == [t |-> "dict", d |-> d]
EmptyMap == [k \in {} |-> None]

IsDict(v) == v.t = "dict"

\* d[k] = v
DictSet(d, k, v) == [x \in (DOMAIN d) \cup {k} |-> IF x = k THEN v ELSE d[x]]
\* d.pop(k, None)
DictPop(d, k) == [x \in (DOMAIN d) \ {k} |-> d[x]]
\* d.get(k, None)
DictGet(d, k) == IF k \in DOMAIN d THEN d[k] ELSE None

\* What a call ends with: a returned value or a raised exception.
Return(v) == [exc |-> "none", val |-> v]
Raise(e, arg) == [exc |-> e, val |-> arg]

----------------------------------------------------------------------------
\* str.strip() and str.split('/')

RECURSIVE LStrip(_)
LStrip(s) == IF s # <<>> /\ Head(s) = " " THEN LStrip(Tail(s)) ELSE s

RECURSIVE RStrip(_)
RStrip(s) == IF s # <<>> /\ s[Len(s)] = " " THEN RStrip(SubSeq(s, 1, Len(s) - 1)) ELSE s

Strip(s) == RStrip(LStrip(s))

RECURSIVE Split(_)
Split(s) ==
    IF \E i \in 1..Len(s) : s[i] = "/"
    THEN LET i == CHOOSE j \in 1..Len(s) : s[j] = "/" /\ \A h \in 1..(j - 1) : s[h] # "/"
         IN  <<SubSeq(s, 1, i - 1)>> \o Split(SubSeq(s, i + 1, Len(s)))
    ELSE <<s>>

\* LocalDatabase.__deserialize_key
deserialize_key(key) ==
    LET parts == Split(Strip(key))
    IN  [main_key |-> parts[1], subkeys |-> Tail(parts)]

----------------------------------------------------------------------------
\* json.dump and json.load

Quote == "\""

RECURSIVE json_dump(_)
RECURSIVE DumpItems(_, _)
DumpItems(d, ks) ==
    IF ks = {} THEN <<>>
    ELSE LET k == CHOOSE x \in ks : TRUE
             rest == ks \ {k}
         IN  <<Quote>> \o k \o <<Quote, ":">> \o json_dump(d[k])
                 \o (IF rest = {} THEN <<>> ELSE <<",">> \o DumpItems(d, rest))

json_dump(v) ==
    CASE v.t = "str" -> <<Quote>> \o v.s \o <<Quote>>
      [] v.t = "none" -> <<"null">>
      [] v.t = "true" -> <<"true">>
      [] v.t = "dict" -> <<"{">> \o DumpItems(v.d, DOMAIN v.d) \o <<"}">>

ParseFail == [ok |-> FALSE, v |-> None, n |-> 0]
ParseOk(v, n) == [ok |-> TRUE, v |-> v, n |-> n]

\* A string literal opening at f[i]: the characters up to the next quote.
ParseString(f, i) ==
    IF i <= Len(f) /\ f[i] = Quote /\ \E j \in (i + 1)..Len(f) : f[j] = Quote
    THEN LET j == CHOOSE x \in (i + 1)..Len(f) :
                      f[x] = Quote /\ \A h \in (i + 1)..(x - 1) : f[h] # Quote
         IN  [ok |-> TRUE, s |-> SubSeq(f, i + 1, j - 1), n |-> j + 1]
    ELSE [ok |-> FALSE, s |-> <<>>, n |-> 0]

RECURSIVE ParseValue(_, _)
RECURSIVE ParseItems(_, _, _)
\* The members of an object from f[i] on, acc being those already read.
ParseItems(f, i, acc) ==
    LET k == ParseString(f, i)
    IN  IF ~k.ok \/ k.n > Len(f) \/ f[k.n] # ":" THEN ParseFail
        ELSE LET v == ParseValue(f, k.n + 1)
             IN  IF ~v.ok \/ v.n > Len(f) THEN ParseFail
                 ELSE IF f[v.n] = "," THEN ParseItems(f, v.n + 1, DictSet(acc, k.s, v.v))
                 ELSE IF f[v.n] = "}" THEN ParseOk(Dict(DictSet(acc, k.s, v.v)), v.n + 1)
                 ELSE ParseFail

ParseValue(f, i) ==
    IF i > Len(f) THEN ParseFail
    ELSE IF f[i] = "null" THEN ParseOk(None, i + 1)
    ELSE IF f[i] = "true" THEN ParseOk(PyTrue, i + 1)
    ELSE IF f[i] = Quote
         THEN LET s == ParseString(f, i)
              IN  IF s.ok THEN ParseOk(Str(s.s), s.n) ELSE ParseFail
    ELSE IF f[i] = "{"
         THEN IF i + 1 <= Len(f) /\ f[i + 1] = "}"
              THEN ParseOk(Dict(EmptyMap), i + 2)
              ELSE ParseItems(f, i + 1, EmptyMap)
    ELSE ParseFail

\* json.load: one value, and nothing after it.
json_load(f) ==
    LET r == ParseValue(f, 1)
    IN  IF r.ok /\ r.n = Len(f) + 1 THEN r ELSE ParseFail

----------------------------------------------------------------------------
\* The document store engine.

\* LocalDatabase.__update_database: seek(0), write the dump over what is
\* there, truncate at the position reached.
WriteAt(f, pos, data) ==
    [i \in 1..(IF Len(f) > pos + Len(data) THEN Len(f) ELSE pos + Len(data)) |->
        IF i > pos /\ i <= pos + Len(data) THEN data[i - pos] ELSE f[i]]

Truncate(f, pos) == SubSeq(f, 1, pos)

\* As update_database, without truncate().
update_database_no_truncate(f, new_db_content) ==
    WriteAt(f, 0, json_dump(Dict(new_db_content)))

\* As update_database, without seek(0): the dump lands where reading ended.
update_database_no_seek(f, new_db_content) ==
    LET out == json_dump(Dict(new_db_content))
    IN  Truncate(WriteAt(f, Len(f), out), Len(f) + Len(out))

\* As update_database, with truncate() ahead of seek(0): the file is cut
\* where reading ended, then the dump is written from the start.
update_database_truncate_first(f, new_db_content) ==
    WriteAt(Truncate(f, Len(f)), 0, json_dump(Dict(new_db_content)))

update_database(f, new_db_content) ==
    LET out == json_dump(Dict(new_db_content))
    IN  Truncate(WriteAt(f, 0, out), Len(out))

\* As Navigate, with current_dict.get(key, {}) for setdefault: a level that
\* is missing is created and never attached to its parent.
RECURSIVE Navigate_get(_, _, _, _)
Navigate_get(current_dict, subkeys, operation, value) ==
    IF Len(subkeys) > 1
    THEN IF ~IsDict(current_dict) THEN Raise("AttributeError", None)
         ELSE LET k == Head(subkeys)
                  child == IF k \in DOMAIN current_dict.d THEN current_dict.d[k]
                           ELSE Dict(EmptyMap)
                  r == Navigate_get(child, Tail(subkeys), operation, value)
              IN  IF r.exc # "none" THEN r
                  ELSE IF k \in DOMAIN current_dict.d
                       THEN Return(Dict(DictSet(current_dict.d, k, r.val)))
                  ELSE Return(current_dict)
    ELSE IF operation = "delete"
         THEN IF IsDict(current_dict)
              THEN Return(Dict(DictPop(current_dict.d, Head(subkeys))))
              ELSE Raise("AttributeError", None)
    ELSE IF operation = "set"
         THEN IF IsDict(current_dict)
              THEN Return(Dict(DictSet(current_dict.d, Head(subkeys), value)))
              ELSE Raise("TypeError", None)
    ELSE Return(current_dict)

\* As Navigate, with a level that is no mapping replaced by an empty mapping
\* in order to descend.
RECURSIVE Navigate_overwrite(_, _, _, _)
Navigate_overwrite(current_dict, subkeys, operation, value) ==
    LET here == IF IsDict(current_dict) THEN current_dict ELSE Dict(EmptyMap)
    IN  IF Len(subkeys) > 1
        THEN LET k == Head(subkeys)
                 child == IF k \in DOMAIN here.d THEN here.d[k] ELSE Dict(EmptyMap)
                 r == Navigate_overwrite(child, Tail(subkeys), operation, value)
             IN  IF r.exc # "none" THEN r
                 ELSE Return(Dict(DictSet(here.d, k, r.val)))
        ELSE IF operation = "delete" THEN Return(Dict(DictPop(here.d, Head(subkeys))))
        ELSE IF operation = "set" THEN Return(Dict(DictSet(here.d, Head(subkeys), value)))
        ELSE Return(here)

\* As Navigate, with current_dict.get(subkeys[-1], None) for the pop of a
\* delete: the final sub-key stays.
RECURSIVE Navigate_keep(_, _, _, _)
Navigate_keep(current_dict, subkeys, operation, value) ==
    IF Len(subkeys) > 1
    THEN IF ~IsDict(current_dict) THEN Raise("AttributeError", None)
         ELSE LET k == Head(subkeys)
                  child == IF k \in DOMAIN current_dict.d THEN current_dict.d[k]
                           ELSE Dict(EmptyMap)
                  r == Navigate_keep(child, Tail(subkeys), operation, value)
              IN  IF r.exc # "none" THEN r
                  ELSE Return(Dict(DictSet(current_dict.d, k, r.val)))
    ELSE IF operation = "delete"
         THEN IF IsDict(current_dict) THEN Return(current_dict)
              ELSE Raise("AttributeError", None)
    ELSE IF operation = "set"
         THEN IF IsDict(current_dict)
              THEN Return(Dict(DictSet(current_dict.d, Head(subkeys), value)))
              ELSE Raise("TypeError", None)
    ELSE Return(current_dict)

\* As Navigate, with each level of the loop rebuilt as {key: child}: what
\* else the level held is dropped.
RECURSIVE Navigate_fresh(_, _, _, _)
Navigate_fresh(current_dict, subkeys, operation, value) ==
    IF Len(subkeys) > 1
    THEN IF ~IsDict(current_dict) THEN Raise("AttributeError", None)
         ELSE LET k == Head(subkeys)
                  child == IF k \in DOMAIN current_dict.d THEN current_dict.d[k]
                           ELSE Dict(EmptyMap)
                  r == Navigate_fresh(child, Tail(subkeys), operation, value)
              IN  IF r.exc # "none" THEN r
                  ELSE Return(Dict(DictSet(EmptyMap, k, r.val)))
    ELSE IF operation = "delete"
         THEN IF IsDict(current_dict)
              THEN Return(Dict(DictPop(current_dict.d, Head(subkeys))))
              ELSE Raise("AttributeError", None)
    ELSE IF operation = "set"
         THEN IF IsDict(current_dict)
              THEN Return(Dict(DictSet(current_dict.d, Head(subkeys), value)))
              ELSE Raise("TypeError", None)
    ELSE Return(current_dict)

\* LocalDatabase.__find_nested_data from current_dict on: the loop over
\* subkeys[:-1] (setdefault) and the operation at subkeys[-1].  Returns the
\* value current_dict holds afterwards, or the exception raised on the way.
RECURSIVE Navigate(_, _, _, _)
Navigate(current_dict, subkeys, operation, value) ==
    IF Len(subkeys) > 1
    THEN IF ~IsDict(current_dict) THEN Raise("AttributeError", None)
         ELSE LET k == Head(subkeys)
                  child == IF k \in DOMAIN current_dict.d THEN current_dict.d[k]
                           ELSE Dict(EmptyMap)
                  r == Navigate(child, Tail(subkeys), operation, value)
              IN  IF r.exc # "none" THEN r
                  ELSE Return(Dict(DictSet(current_dict.d, k, r.val)))
    ELSE IF operation = "delete"
         THEN IF IsDict(current_dict)
              THEN Return(Dict(DictPop(current_dict.d, Head(subkeys))))
              ELSE Raise("AttributeError", None)
    ELSE IF operation = "set"
         THEN IF IsDict(current_dict)
              THEN Return(Dict(DictSet(current_dict.d, Head(subkeys), value)))
              ELSE Raise("TypeError", None)
    ELSE Return(current_dict)

\* As find_nested_data, with db_content.setdefault(key, {}) for
\* db_content[key]: a root key that is missing is created.
find_nested_data_setdefault(db_content, key, subkeys, operation, value) ==
    LET root == IF key \in DOMAIN db_content THEN db_content[key] ELSE Dict(EmptyMap)
    IN  IF Len(subkeys) > 0
        THEN LET r == Navigate(root, subkeys, operation, value)
             IN  IF r.exc # "none" THEN r
                 ELSE Return(Dict(DictSet(db_content, key, r.val)))
        ELSE Return(Dict(DictSet(db_content, key, root)))

\* LocalDatabase.__find_nested_data: the document afterwards, or the exception.
find_nested_data(db_content, key, subkeys, operation, value) ==
    IF key \notin DOMAIN db_content THEN Raise("KeyError", Str(key))
    ELSE IF Len(subkeys) > 0
         THEN LET r == Navigate(db_content[key], subkeys, operation, value)
              IN  IF r.exc # "none" THEN r
                  ELSE Return(Dict(DictSet(db_content, key, r.val)))
    ELSE Return(Dict(db_content))

\* The loop of get_data over the subkeys.
RECURSIVE GetWalk(_, _)
GetWalk(data, subkeys) ==
    IF subkeys = <<>> THEN Return(data)
    ELSE IF ~IsDict(data) THEN Raise("AttributeError", None)
    ELSE LET nxt == DictGet(data.d, Head(subkeys))
         IN  IF nxt.t = "none" THEN Return(nxt) ELSE GetWalk(nxt, Tail(subkeys))

\* An operation on file content f gives: res, what the call ends with; file,
\* the content afterwards; stamped, whether the timestamp was assigned.
Outcome(res, file, stamped) == [res |-> res, file |-> file, stamped |-> stamped]

\* As get_data, without the isinstance test on the root value: the loop over
\* the subkeys runs on whatever db.get(key) returned.
get_data_always_walk(f, key) ==
    LET ld == json_load(f)
    IN  IF ~ld.ok THEN Outcome(Raise("JSONDecodeError", None), f, FALSE)
        ELSE LET k == deserialize_key(key)
                 data == DictGet(ld.v.d, k.main_key)
             IN  Outcome(GetWalk(data, k.subkeys), f, TRUE)

\* LocalDatabase.get_data
get_data(f, key) ==
    LET ld == json_load(f)
    IN  IF ~ld.ok THEN Outcome(Raise("JSONDecodeError", None), f, FALSE)
        ELSE LET k == deserialize_key(key)
                 data == DictGet(ld.v.d, k.main_key)
             IN  IF Len(k.subkeys) > 0 /\ IsDict(data)
                 THEN Outcome(GetWalk(data, k.subkeys), f, TRUE)
                 ELSE Outcome(Return(data), f, TRUE)

\* As set_mutate, without the test that the root key is in the document.
set_mutate_no_check(db, key, value) ==
    LET k == deserialize_key(key)
    IN  IF Len(k.subkeys) > 0
        THEN find_nested_data(db, k.main_key, k.subkeys, "set", value)
        ELSE Return(Dict(DictSet(db, k.main_key, value)))

\* set_data up to the call of __update_database: the document to persist,
\* or the exception.
set_mutate(db, key, value) ==
    LET k == deserialize_key(key)
    IN  IF k.main_key \notin DOMAIN db THEN Raise("KeyNotFoundError", Str(k.main_key))
        ELSE IF Len(k.subkeys) > 0
             THEN find_nested_data(db, k.main_key, k.subkeys, "set", value)
        ELSE Return(Dict(DictSet(db, k.main_key, value)))

\* As set_data, with db[key] = value and __update_database ahead of the test
\* on the root key: the KeyNotFoundError comes after the write.
set_data_write_first(f, key, value) ==
    LET ld == json_load(f)
    IN  IF ~ld.ok THEN Outcome(Raise("JSONDecodeError", None), f, FALSE)
        ELSE LET m == set_mutate(ld.v.d, key, value)
                 k == deserialize_key(key)
             IN  IF m.exc = "KeyNotFoundError"
                 THEN Outcome(m, update_database(f, DictSet(ld.v.d, k.main_key, value)), TRUE)
                 ELSE IF m.exc # "none" THEN Outcome(m, f, TRUE)
                 ELSE Outcome(Return(PyTrue), update_database(f, m.val.d), TRUE)

\* LocalDatabase.set_data
set_data(f, key, value) ==
    LET ld == json_load(f)
    IN  IF ~ld.ok THEN Outcome(Raise("JSONDecodeError", None), f, FALSE)
        ELSE LET m == set_mutate(ld.v.d, key, value)
             IN  IF m.exc # "none" THEN Outcome(m, f, TRUE)
                 ELSE Outcome(Return(PyTrue), update_database(f, m.val.d), TRUE)

\* As delete_mutate, with db.pop(key) for db.pop(key, None).
delete_mutate_pop_raises(db, key) ==
    LET k == deserialize_key(key)
    IN  IF Len(k.subkeys) > 0
        THEN find_nested_data(db, k.main_key, k.subkeys, "delete", Str(<<>>))
        ELSE IF k.main_key \in DOMAIN db THEN Return(Dict(DictPop(db, k.main_key)))
        ELSE Raise("KeyError", Str(k.main_key))

\* As delete_mutate, with db.popitem() for db.pop(key, None).
delete_mutate_popitem(db, key) ==
    LET k == deserialize_key(key)
    IN  IF Len(k.subkeys) > 0
        THEN find_nested_data(db, k.main_key, k.subkeys, "delete", Str(<<>>))
        ELSE IF DOMAIN db = {} THEN Raise("KeyError", None)
        ELSE Return(Dict(DictPop(db, CHOOSE x \in DOMAIN db : TRUE)))

\* delete_data up to the call of __update_database.
delete_mutate(db, key) ==
    LET k == deserialize_key(key)
    IN  IF Len(k.subkeys) > 0
        THEN find_nested_data(db, k.main_key, k.subkeys, "delete", Str(<<>>))
        ELSE Return(Dict(DictPop(db, k.main_key)))

\* LocalDatabase.delete_data
delete_data(f, key) ==
    LET ld == json_load(f)
    IN  IF ~ld.ok THEN Outcome(Raise("JSONDecodeError", None), f, TRUE)
        ELSE LET m == delete_mutate(ld.v.d, key)
             IN  IF m.exc # "none" THEN Outcome(m, f, TRUE)
                 ELSE Outcome(Return(PyTrue), update_database(f, m.val.d), TRUE)

----------------------------------------------------------------------------
\* The state.

VARIABLES
    fs,            \* the regular files: path -> content
    cls_instance,  \* LocalDatabase.__instance: an index of objs, or 0 for None
    objs,          \* the LocalDatabase objects created so far
    clock,         \* datetime.datetime.now()
    last,          \* the last call made and what it ended with
    calls          \* the set_data calls in progress, one per concurrent caller

vars == <<fs, cls_instance, objs, clock, last, calls>>

\* A timestamp attribute holding None.
NoStamp == -1

DotJson == <<".", "j", "s", "o", "n">>
EndsWith(s, suffix) ==
    Len(s) >= Len(suffix) /\ SubSeq(s, Len(s) - Len(suffix) + 1, Len(s)) = suffix

\* Paths: two JSON files, a text file, a directory and a name with nothing behind it.
P1 == <<"p">> \o DotJson
P2 == <<"q">> \o DotJson
PText == <<"p", ".", "t", "x", "t">>
PDir == <<"d">> \o DotJson
PMissing == <<"m">> \o DotJson
Paths == {P1, P2, PText, PDir, PMissing}
Dirs == {PDir}

kA == <<"a">>
kAA == <<"a", "a">>
kE == <<>>
X == Str(<<"x">>)
Y == Str(<<"y">>)
Dict1(k, v) == Dict([x \in {k} |-> v])
Dict2(k1, v1, k2, v2) == Dict([x \in {k1, k2} |-> IF x = k1 THEN v1 ELSE v2])

\* The documents a run starts from.
InitDocs ==
    { Dict(EmptyMap),
      Dict2(kA, X, kAA, Dict(EmptyMap)),
      Dict2(kA, Dict2(kE, X, kA, None), kAA, Y),
      Dict1(kA, Dict1(kE, Dict1(kE, X))),
      Dict2(kE, Dict2(kA, Dict1(kA, X), kE, X), kA, None),
      Dict2(kA, Dict1(kA, Dict(EmptyMap)), kAA, Dict1(kE, Y)) }

\* The values set_data is called with.
SetValues == {Y, Dict(EmptyMap)}

NoCall == [op |-> "none", key |-> <<>>, value |-> None, res |-> Return(None)]
Call(op, key, value, res) == [op |-> op, key |-> key, value |-> value, res |-> res]

\* A LocalDatabase object after __init__(path) at time now.  shadowed tells
\* whether the object holds an attribute __instance of its own, which
\* __del__ assigns.
Handle(path, now, shadowed) ==
    [path |-> path, created_at |-> now, last_accessed |-> NoStamp,
     last_modified |-> NoStamp, shadowed |-> shadowed]

\* A reference to the object objs[i].
Obj(i) == [t |-> "object", id |-> i]

\* The references a caller may hold; one is live when its object exists.
Refs == {1, 2}
Live(self) == self \in 1..Len(objs)

\* The content of the file an object is bound to.
FileOf(self) == fs[objs[self].path]

\* What open(self.path) raises when it cannot open the file.
OpenError(self) ==
    IF objs[self].path \in Dirs THEN "IsADirectoryError"
    ELSE IF objs[self].path \notin DOMAIN fs THEN "FileNotFoundError"
    ELSE "none"

\* A method call on self: open the file, run the operation, keep what it
\* wrote and the timestamp it set.
Perform(self, op, key, value, out, stamp) ==
    /\ clock' = clock + 1
    /\ IF OpenError(self) = "none"
       THEN /\ last' = Call(op, key, value, out.res)
            /\ fs' = [fs EXCEPT ![objs[self].path] = out.file]
            /\ objs' = IF out.stamped THEN [objs EXCEPT ![self][stamp] = clock'] ELSE objs
       ELSE /\ last' = Call(op, key, value, Raise(OpenError(self), None))
            /\ UNCHANGED <<fs, objs>>
    /\ UNCHANGED <<cls_instance, calls>>

get(self, keys) ==
    \E key \in keys :
        Perform(self, "get_data", key, None, get_data(FileOf(self), key), "last_accessed")

set(self, keys, values) ==
    \E key \in keys, value \in values :
        Perform(self, "set_data", key, value, set_data(FileOf(self), key, value), "last_modified")

delete(self, keys) ==
    \E key \in keys :
        Perform(self, "delete_data", key, None, delete_data(FileOf(self), key), "last_modified")

\* One connected handle on P1, whose file holds one of the documents.
Init ==
    /\ \E d \in InitDocs : fs = [p \in {P1} |-> json_dump(d)]
    /\ objs = <<Handle(P1, 0, FALSE)>>
    /\ cls_instance = 1
    /\ clock = 0
    /\ last = NoCall
    /\ calls = <<>>

\* The calls of the three operations, with any raw key.
GetData(self) == Live(self) /\ clock < MaxOps /\ get(self, RawKeys)
SetData(self) == Live(self) /\ clock < MaxOps /\ set(self, RawKeys, SetValues)
DeleteData(self) == Live(self) /\ clock < MaxOps /\ delete(self, RawKeys)

Next ==
    \E self \in Refs :
        \/ GetData(self)
        \/ SetData(self)
        \/ DeleteData(self)

Spec == Init /\ [][Next]_vars

\* The root mapping of the document in a file, and in P1's file before and
\* after a step.
DocOf(f) == json_load(f).v.d
Doc == DocOf(fs[P1])
DocAfter == DocOf(fs'[P1])

----------------------------------------------------------------------------
\* Properties of the engine, checked under Spec.

\* A step that makes a call of op.
Called(op) == clock' = clock + 1 /\ last'.op = op

\* The value found in v along path, when every level of it is there.
RECURSIVE Lookup(_, _)
Lookup(v, path) ==
    IF path = <<>> THEN [found |-> TRUE, v |-> v]
    ELSE IF IsDict(v) /\ Head(path) \in DOMAIN v.d THEN Lookup(v.d[Head(path)], Tail(path))
    ELSE [found |-> FALSE, v |-> None]

Prefix(S, i) == SubSeq(S, 1, i)

\* Walking S from v meets a mapping at every level of S[:-1] that exists.
Navigable(v, S) ==
    \A i \in 0..(Len(S) - 1) :
        LET r == Lookup(v, Prefix(S, i)) IN r.found => IsDict(r.v)

\* C1: set_data on a path whose root key K is absent from the document
\* raises KeyNotFoundError carrying K, whatever the sub-keys and the value,
\* and leaves the file as it was.
C1_SetAbsentRootFails ==
    [][ Called("set_data") =>
          LET k == deserialize_key(last'.key)
              pre == Doc
          IN  k.main_key \notin DOMAIN pre
                  => /\ last'.res = Raise("KeyNotFoundError", Str(k.main_key))
                     /\ fs' = fs
                     /\ DOMAIN DocAfter = DOMAIN pre ]_vars

C1_Witness ==
    /\ last.op = "set_data"
    /\ last.res.exc = "KeyNotFoundError"
    /\ Len(deserialize_key(last.key).subkeys) > 0
    /\ DOMAIN Doc # {}

\* C2 as stated: set_data(K/S, v) with K in the document and S non-empty
\* succeeds, get_data(K/S) then returns v, and every level of S[:-1] that was
\* missing is afterwards a mapping holding only the next key of the path.
SetNestedHolds(k, pre, post) ==
    /\ last'.res = Return(PyTrue)
    /\ get_data(fs'[P1], last'.key).res = Return(last'.value)
    /\ \A i \in 1..(Len(k.subkeys) - 1) :
          ~Lookup(pre[k.main_key], Prefix(k.subkeys, i)).found
             => LET a == Lookup(post[k.main_key], Prefix(k.subkeys, i))
                IN  a.found /\ IsDict(a.v) /\ DOMAIN a.v.d = {k.subkeys[i + 1]}

C2_SetNestedThenGet ==
    [][ Called("set_data") =>
          LET k == deserialize_key(last'.key)
              pre == Doc
          IN  (k.main_key \in DOMAIN pre /\ Len(k.subkeys) > 0)
                  => SetNestedHolds(k, pre, DocAfter) ]_vars

\* C2 amended: the same, for the paths on which the value of K and every
\* level of S[:-1] present in the document is a mapping.
C2_SetNestedThenGet_Navigable ==
    [][ Called("set_data") =>
          LET k == deserialize_key(last'.key)
              pre == Doc
          IN  (/\ k.main_key \in DOMAIN pre
               /\ Len(k.subkeys) > 0
               /\ Navigable(pre[k.main_key], k.subkeys))
                  => SetNestedHolds(k, pre, DocAfter) ]_vars

\* A nested set_data that created a level on its way: one that no document
\* a run starts from holds.
C2_Witness ==
    LET k == deserialize_key(last.key)
        now == Doc
    IN  /\ last.op = "set_data"
        /\ last.res = Return(PyTrue)
        /\ Len(k.subkeys) > 1
        /\ Lookup(now[k.main_key], k.subkeys).found
        /\ DOMAIN Lookup(now[k.main_key], Prefix(k.subkeys, 1)).v.d = {k.subkeys[2]}
        /\ \A d \in InitDocs :
              k.main_key \in DOMAIN d.d => ~Lookup(d.d[k.main_key], Prefix(k.subkeys, 1)).found

\* C3: set_data(K, v) with no sub-keys on a root key K of the document,
\* followed by get_data(K), returns v, whatever K held and whether v is a
\* scalar or a mapping.
C3_SetRootThenGet ==
    [][ Called("set_data") =>
          LET k == deserialize_key(last'.key)
          IN  (Len(k.subkeys) = 0 /\ k.main_key \in DOMAIN Doc)
                  => /\ last'.res = Return(PyTrue)
                     /\ get_data(fs'[P1], last'.key).res = Return(last'.value) ]_vars

\* A mapping written over a root key.
C3_Witness ==
    LET k == deserialize_key(last.key)
    IN  /\ last.op = "set_data"
        /\ last.res = Return(PyTrue)
        /\ Len(k.subkeys) = 0
        /\ IsDict(last.value)
        /\ Doc[k.main_key] = last.value

\* C4: get_data on K/S, S non-empty and the value of K a mapping, never
\* raises: a level that is not a mapping, or a missing sub-key, ends the walk
\* with None.
C4_GetNeverRaises ==
    LET k == deserialize_key(last.key)
    IN  (/\ last.op = "get_data"
         /\ Len(k.subkeys) > 0
         /\ k.main_key \in DOMAIN Doc
         /\ IsDict(Doc[k.main_key]))
            => /\ last.res.exc = "none"
               /\ ~Lookup(Doc[k.main_key], k.subkeys).found => last.res = Return(None)

\* C5: delete_data returns True on every document and every path, having
\* written the document back.
C5_DeleteAlwaysSucceeds ==
    last.op = "delete_data" => last.res = Return(PyTrue)

\* C6: a second delete_data of the same path leaves the file as the first
\* one left it.
C6_DeleteIdempotent ==
    last.op = "delete_data" => delete_data(fs[P1], last.key).file = fs[P1]

\* A delete_data that left a document no run starts from.
C6_Witness ==
    /\ last.op = "delete_data"
    /\ last.res = Return(PyTrue)
    /\ \A d \in InitDocs : fs[P1] # json_dump(d)

\* C7: delete_data(K) with no sub-keys returns True; the document loses K
\* and nothing else, and is as it was when K was not there.
C7_DeleteRoot ==
    [][ Called("delete_data") =>
          LET k == deserialize_key(last'.key)
              pre == Doc
              post == DocAfter
          IN  Len(k.subkeys) = 0
                  => /\ last'.res = Return(PyTrue)
                     /\ DOMAIN post = (DOMAIN pre) \ {k.main_key}
                     /\ \A r \in DOMAIN post : post[r] = pre[r]
                     /\ k.main_key \notin DOMAIN pre => post = pre ]_vars

\* A root key removed, another one kept.
C7_Witness ==
    LET k == deserialize_key(last.key)
    IN  /\ last.op = "delete_data"
        /\ Len(k.subkeys) = 0
        /\ last.res = Return(PyTrue)
        /\ Cardinality(DOMAIN Doc) = 1
        /\ k.main_key \notin DOMAIN Doc
        /\ k.main_key \in {kA, kAA, kE}

\* C8: no call acts on an empty root key: the root key parsed from the raw
\* key of a call is never the empty string.
C8_RootKeyNeverEmpty ==
    last.op # "none" => deserialize_key(last.key).main_key # <<>>

----------------------------------------------------------------------------
\* Concurrent callers of set_data on the one handle.  A call is two steps:
\* the load (open, json.load, the change made in memory) and the persist
\* (__update_database); other callers' steps may fall between them.

Callers == {"c1", "c2"}

Idle == [pc |-> "idle", key |-> <<>>, value |-> None, snap |-> EmptyMap, db |-> EmptyMap,
         res |-> Return(None)]

\* The value each caller writes.
Writes(c) == IF c = "c1" THEN Y ELSE Dict(EmptyMap)

\* The documents the concurrent callers start from.
ConcDocs == {d \in InitDocs : Cardinality(DOMAIN d.d) = 2}

\* set_data from open() to the line before __update_database.
SetLoad(c) ==
    /\ calls[c].pc = "idle"
    /\ \E key \in RawKeys :
          LET value == Writes(c)
              ld == json_load(fs[objs[1].path])
              m == set_mutate(ld.v.d, key, value)
          IN  /\ ld.ok
              /\ calls' = [calls EXCEPT ![c] =
                              IF m.exc # "none"
                              THEN [pc |-> "done", key |-> key, value |-> value,
                                    snap |-> ld.v.d, db |-> ld.v.d, res |-> m]
                              ELSE [pc |-> "loaded", key |-> key, value |-> value,
                                    snap |-> ld.v.d, db |-> m.val.d, res |-> Return(None)]]
              /\ last' = IF m.exc # "none" THEN Call("set_data", key, value, m) ELSE last
    /\ clock' = clock + 1
    /\ objs' = [objs EXCEPT ![1].last_modified = clock']
    /\ UNCHANGED <<fs, cls_instance>>

\* __update_database, and the return of set_data.
SetPersist(c) ==
    /\ calls[c].pc = "loaded"
    /\ fs' = [fs EXCEPT ![objs[1].path] = update_database(@, calls[c].db)]
    /\ calls' = [calls EXCEPT ![c].pc = "done", ![c].res = Return(PyTrue)]
    /\ last' = Call("set_data", calls[c].key, calls[c].value, Return(PyTrue))
    /\ UNCHANGED <<cls_instance, objs, clock>>

InitConc ==
    /\ \E d \in ConcDocs : fs = [p \in {P1} |-> json_dump(d)]
    /\ objs = <<Handle(P1, 0, FALSE)>>
    /\ cls_instance = 1
    /\ clock = 0
    /\ last = NoCall
    /\ calls = [c \in Callers |-> Idle]

NextConc ==
    \E c \in Callers :
        \/ SetLoad(c)
        \/ SetPersist(c)

SpecConc == InitConc /\ [][NextConc]_vars

\* The file holds exactly the document d.
Holds(f, d) ==
    LET r == json_load(f) IN r.ok /\ r.v = Dict(d)

\* The document db with value put at the path of key.
RECURSIVE PutAt(_, _, _)
PutAt(v, path, value) ==
    IF path = <<>> THEN value
    ELSE LET inner == IF Head(path) \in DOMAIN v.d THEN v.d[Head(path)] ELSE Dict(EmptyMap)
         IN  Dict([x \in (DOMAIN v.d) \cup {Head(path)} |->
                     IF x = Head(path) THEN PutAt(inner, Tail(path), value) ELSE v.d[x]])

Changed(db, key, value) ==
    LET k == deserialize_key(key)
    IN  PutAt(Dict(db), <<k.main_key>> \o k.subkeys, value).d

\* C9: a persist step leaves in the file the document its caller loaded with
\* that caller's change alone, whatever was persisted in between (the last
\* writer wins); a run of two calls on two root keys can so end with one of
\* the two written values missing.
C9_LastWriterWins ==
    [][ \A c \in Callers :
          (calls[c].pc = "loaded" /\ calls'[c].pc = "done")
             => Holds(fs'[P1], Changed(calls[c].snap, calls[c].key, calls[c].value)) ]_vars

\* Both calls returned True, on two root keys, and the first one's value is
\* not in the document.
C9_LostUpdate ==
    LET k1 == deserialize_key(calls["c1"].key)
        k2 == deserialize_key(calls["c2"].key)
    IN  /\ \A c \in Callers : calls[c].pc = "done" /\ calls[c].res = Return(PyTrue)
        /\ k1.subkeys = <<>> /\ k2.subkeys = <<>>
        /\ k1.main_key # k2.main_key
        /\ DocOf(fs[P1])[k1.main_key] # calls["c1"].value
        /\ DocOf(fs[P1])[k2.main_key] = calls["c2"].value

----------------------------------------------------------------------------
\* The life of the handle: constructor calls and __del__.

MaxCalls == 3

\* As new, without the test on cls.__instance: every call creates.
new_always(cls, path) ==
    IF path \notin (DOMAIN fs) \cup Dirs \/ path \notin DOMAIN fs \/ ~EndsWith(path, DotJson)
    THEN "raise"
    ELSE "create"

\* What LocalDatabase.__new__ does with path, cls being LocalDatabase.__instance.
new(cls, path) ==
    IF cls = 0
    THEN IF path \notin (DOMAIN fs) \cup Dirs \/ path \notin DOMAIN fs \/ ~EndsWith(path, DotJson)
         THEN "raise"
         ELSE "create"
    ELSE "reuse"

\* As New, without __init__ on an object that is reused: it stays as it was.
New_no_init(path) ==
    /\ clock < MaxCalls
    /\ clock' = clock + 1
    /\ LET how == new(cls_instance, path)
       IN  /\ how = "raise" =>
                /\ last' = Call("new", path, None, Raise("FileNotFoundError", None))
                /\ UNCHANGED <<objs, cls_instance>>
           /\ how = "create" =>
                /\ objs' = Append(objs, Handle(path, clock', FALSE))
                /\ cls_instance' = Len(objs) + 1
                /\ last' = Call("new", path, None, Return(Obj(cls_instance')))
           /\ how = "reuse" =>
                /\ UNCHANGED <<objs, cls_instance>>
                /\ last' = Call("new", path, None, Return(Obj(cls_instance)))
    /\ UNCHANGED <<fs, calls>>

\* LocalDatabase(path): __new__, then __init__ on the object it returned.
New(path) ==
    /\ clock < MaxCalls
    /\ clock' = clock + 1
    /\ LET how == new(cls_instance, path)
       IN  /\ how = "raise" =>
                /\ last' = Call("new", path, None, Raise("FileNotFoundError", None))
                /\ UNCHANGED <<objs, cls_instance>>
           /\ how = "create" =>
                /\ objs' = Append(objs, Handle(path, clock', FALSE))
                /\ cls_instance' = Len(objs) + 1
                /\ last' = Call("new", path, None, Return(Obj(cls_instance')))
           /\ how = "reuse" =>
                /\ objs' = [objs EXCEPT ![cls_instance] =
                               Handle(path, clock', objs[cls_instance].shadowed)]
                /\ cls_instance' = cls_instance
                /\ last' = Call("new", path, None, Return(Obj(cls_instance)))
    /\ UNCHANGED <<fs, calls>>

\* What LocalDatabase.__del__ leaves in LocalDatabase.__instance: it assigns
\* None to an attribute of the object, not of the class.
del_instance(cls) == cls

\* self.__del__()
Del(self) ==
    /\ Live(self)
    /\ clock < MaxCalls
    /\ clock' = clock + 1
    /\ objs' = [objs EXCEPT ![self].shadowed = TRUE]
    /\ cls_instance' = del_instance(cls_instance)
    /\ last' = Call("del", objs[self].path, None, Return(None))
    /\ UNCHANGED <<fs, calls>>

InitLife ==
    /\ fs = (P1 :> json_dump(Dict1(kA, X))) @@ (P2 :> json_dump(Dict(EmptyMap)))
                @@ (PText :> <<"x">>)
    /\ objs = <<>>
    /\ cls_instance = 0
    /\ clock = 0
    /\ last = NoCall
    /\ calls = <<>>

\* The keys and the value the handle is used with between constructions.
LifeKeys == {kA, <<"a", "/", "a">>}
LifeValues == {Y}

\* The calls of the three operations between constructions.
LifeGet(self) == Live(self) /\ clock < MaxCalls /\ get(self, LifeKeys)
LifeSet(self) == Live(self) /\ clock < MaxCalls /\ set(self, LifeKeys, LifeValues)
LifeDelete(self) == Live(self) /\ clock < MaxCalls /\ delete(self, LifeKeys)

NextLife ==
    \/ \E path \in Paths : New(path)
    \/ \E self \in Refs :
          \/ Del(self)
          \/ LifeGet(self)
          \/ LifeSet(self)
          \/ LifeDelete(self)

SpecLife == InitLife /\ [][NextLife]_vars

\* C10: once a construction has succeeded, every later construction creates
\* no object and returns the object the first one returned; there is never
\* more than one LocalDatabase object.
C10_Singleton ==
    [][ (clock' = clock + 1 /\ last'.op = "new" /\ Len(objs) > 0)
            => /\ Len(objs') = 1
               /\ last'.res = Return(Obj(1))
               /\ cls_instance' = 1 ]_vars

\* A construction on a path that is no file, answered with the first object.
C10_Witness ==
    /\ last.op = "new"
    /\ last.key = PMissing
    /\ last.res = Return(Obj(1))
    /\ Len(objs) = 1

\* A path the constructor accepts: it exists, is a regular file and ends in
\* '.json'.
ValidPath(path) == path \in DOMAIN fs /\ EndsWith(path, DotJson)

\* C11: every construction with a path that does not exist, is no regular
\* file or does not end in '.json' raises FileNotFoundError, and no object is
\* bound to that path afterwards, whether or not an object was created before.
C11_InvalidPathRaises ==
    [][ (clock' = clock + 1 /\ last'.op = "new" /\ ~ValidPath(last'.key))
            => /\ last'.res = Raise("FileNotFoundError", None)
               /\ \A i \in 1..Len(objs') : objs'[i].path # last'.key ]_vars

----------------------------------------------------------------------------
\* Further properties of the engine, checked under Spec.

\* C12: no call adds a root key to the persisted document: after each call
\* the root keys are among those before it; set_data leaves the root keys as
\* they were, and only delete_data with no sub-keys removes one.
C12_RootKeysNeverGrow ==
    [][ (clock' = clock + 1 /\ fs' # fs) =>
          LET k == deserialize_key(last'.key)
              pre == DOMAIN Doc
              post == DOMAIN DocAfter
          IN  /\ post \subseteq pre
              /\ last'.op = "set_data" => post = pre
              /\ post # pre => last'.op = "delete_data" /\ Len(k.subkeys) = 0 ]_vars

\* A nested delete_data that created a level and kept both root keys.
C12_Witness ==
    LET k == deserialize_key(last.key)
    IN  /\ last.op = "delete_data"
        /\ last.res = Return(PyTrue)
        /\ Len(k.subkeys) > 1
        /\ DOMAIN Doc = {kA, kAA}
        /\ \A d \in InitDocs : fs[P1] # json_dump(d)

\* C13: set_data and delete_data on K/S, K in the document and S non-empty,
\* end with an exception and leave the file as it was whenever the value of K
\* or the value reached at a level of S[:-1] is not a mapping; the scalar is
\* never replaced by a mapping.  Stated by contraposition: a call that did
\* not end so was not on such a path.
C13_ScalarLevelFaults ==
    [][ (/\ (Called("set_data") \/ Called("delete_data"))
         /\ ~(last'.res.exc \in {"AttributeError", "TypeError"} /\ fs' = fs)) =>
          LET k == deserialize_key(last'.key)
              pre == Doc
          IN  ~(/\ k.main_key \in DOMAIN pre
                /\ Len(k.subkeys) > 0
                /\ ~Navigable(pre[k.main_key], k.subkeys)) ]_vars

\* A nested delete_data stopped by a scalar below a root value that is a
\* mapping.
C13_Witness ==
    LET k == deserialize_key(last.key)
    IN  /\ last.op = "delete_data"
        /\ last.res.exc = "AttributeError"
        /\ Len(k.subkeys) > 1
        /\ k.main_key \in DOMAIN Doc
        /\ IsDict(Doc[k.main_key])
        /\ Lookup(Doc[k.main_key], Prefix(k.subkeys, 1)).found
        /\ ~IsDict(Lookup(Doc[k.main_key], Prefix(k.subkeys, 1)).v)

\* C14: a call that ends with an exception, whichever it is, leaves the file
\* exactly as it was before the call.
C14_FailureAtomic ==
    [][ (clock' = clock + 1 /\ last'.res.exc # "none") => fs' = fs ]_vars

\* A nested set_data stopped by a scalar after it went one level down.
C14_Witness ==
    LET k == deserialize_key(last.key)
    IN  /\ last.op = "set_data"
        /\ last.res.exc \in {"AttributeError", "TypeError"}
        /\ Len(k.subkeys) > 1
        /\ IsDict(Doc[k.main_key])
        /\ \E d \in InitDocs : fs[P1] = json_dump(d)

\* C15 as stated: delete_data(K/S) with K in the document, its value a
\* mapping and S non-empty leaves every level of S[:-1] that was missing as a
\* mapping holding only the next key of the path (the last one empty), the
\* final sub-key absent, the other root keys as they were, and the document
\* unchanged when every level of S[:-1] was there and the final sub-key was not.
DeleteNestedHolds(k, pre, post) ==
    /\ \A i \in 1..(Len(k.subkeys) - 1) :
          ~Lookup(pre[k.main_key], Prefix(k.subkeys, i)).found
             => LET a == Lookup(post[k.main_key], Prefix(k.subkeys, i))
                IN  /\ a.found
                    /\ IsDict(a.v)
                    /\ DOMAIN a.v.d = IF i < Len(k.subkeys) - 1 THEN {k.subkeys[i + 1]} ELSE {}
    /\ ~Lookup(post[k.main_key], k.subkeys).found
    /\ DOMAIN post = DOMAIN pre
    /\ \A r \in (DOMAIN pre) \ {k.main_key} : post[r] = pre[r]
    /\ (/\ \A i \in 1..(Len(k.subkeys) - 1) :
               Lookup(pre[k.main_key], Prefix(k.subkeys, i)).found
        /\ ~Lookup(pre[k.main_key], k.subkeys).found) => post = pre

C15_DeleteNested ==
    [][ Called("delete_data") =>
          LET k == deserialize_key(last'.key)
              pre == Doc
          IN  (/\ k.main_key \in DOMAIN pre
               /\ IsDict(pre[k.main_key])
               /\ Len(k.subkeys) > 0)
                  => DeleteNestedHolds(k, pre, DocAfter) ]_vars

\* C15 amended: the same, for the paths on which every level of S[:-1]
\* present in the document is a mapping; the call then returns True.
C15_DeleteNested_Navigable ==
    [][ Called("delete_data") =>
          LET k == deserialize_key(last'.key)
              pre == Doc
          IN  (/\ k.main_key \in DOMAIN pre
               /\ Len(k.subkeys) > 0
               /\ Navigable(pre[k.main_key], k.subkeys))
                  => /\ last'.res = Return(PyTrue)
                     /\ DeleteNestedHolds(k, pre, DocAfter) ]_vars

\* A nested delete_data that found the final sub-key missing and left behind
\* a level it created: an empty mapping no document of a run's start holds.
C15_Witness ==
    LET k == deserialize_key(last.key)
        now == Doc
    IN  /\ last.op = "delete_data"
        /\ last.res = Return(PyTrue)
        /\ Len(k.subkeys) > 1
        /\ Lookup(now[k.main_key], Prefix(k.subkeys, 1)).found
        /\ Lookup(now[k.main_key], Prefix(k.subkeys, 1)).v = Dict(EmptyMap)
        /\ \A d \in InitDocs :
              k.main_key \in DOMAIN d.d => ~Lookup(d.d[k.main_key], Prefix(k.subkeys, 1)).found

\* C16: get_data(K/S), S non-empty, returns the value of K itself when K is
\* in the document and its value is no mapping, and None when K is not in
\* the document, whatever S is.
C16_GetIgnoresSubkeys ==
    LET k == deserialize_key(last.key)
    IN  (last.op = "get_data" /\ Len(k.subkeys) > 0)
            => /\ (k.main_key \in DOMAIN Doc /\ ~IsDict(Doc[k.main_key]))
                     => last.res = Return(Doc[k.main_key])
               /\ k.main_key \notin DOMAIN Doc => last.res = Return(None)

\* A get_data with two sub-keys that returned the string held by the root key.
C16_Witness ==
    LET k == deserialize_key(last.key)
    IN  /\ last.op = "get_data"
        /\ Len(k.subkeys) > 1
        /\ k.main_key \in DOMAIN Doc
        /\ Doc[k.main_key].t = "str"
        /\ last.res = Return(Doc[k.main_key])

\* post is pre but for what lies on path, below it, or on the way to it: at
\* every level of path the keys other than the next one of path hold what
\* they held, and a level that was not there holds nothing else.
RECURSIVE SameOff(_, _, _)
SameOff(pre, post, path) ==
    IF path = <<>> THEN TRUE
    ELSE IF ~IsDict(pre) \/ ~IsDict(post) THEN pre = post
    ELSE LET h == Head(path)
         IN  /\ \A x \in ((DOMAIN pre.d) \cup (DOMAIN post.d)) \ {h} :
                    x \in DOMAIN pre.d /\ x \in DOMAIN post.d /\ post.d[x] = pre.d[x]
             /\ h \in DOMAIN post.d =>
                    SameOff(IF h \in DOMAIN pre.d THEN pre.d[h] ELSE Dict(EmptyMap),
                            post.d[h], Tail(path))

\* C17: a set_data or delete_data on K/S that returns True leaves every root
\* key other than K holding what it held and, inside K, every path that is
\* neither on the way to K/S nor below it; get_data leaves the file as it was.
C17_Frame ==
    [][ /\ (/\ (Called("set_data") \/ Called("delete_data"))
            /\ last'.res = Return(PyTrue)
            /\ fs' # fs) =>
              LET k == deserialize_key(last'.key)
              IN  SameOff(Dict(Doc), Dict(DocAfter), <<k.main_key>> \o k.subkeys)
        /\ Called("get_data") => fs' = fs ]_vars

\* A set_data two levels down in a root value that holds another key, in a
\* document that holds another root key.
C17_Witness ==
    LET k == deserialize_key(last.key)
    IN  /\ last.op = "set_data"
        /\ last.res = Return(PyTrue)
        /\ Len(k.subkeys) > 1
        /\ Cardinality(DOMAIN Doc) > 1
        /\ Cardinality(DOMAIN Doc[k.main_key].d) > 1

\* C18: after a set_data or delete_data that returns True the file is the
\* dump of the changed document, from the first character to the last, and
\* loading it gives that document, also when the dump is shorter than what
\* the file held.
C18_FileIsDump ==
    [][ (Called("set_data") \/ Called("delete_data")) =>
          LET pre == Doc
              m == IF last'.op = "set_data" THEN set_mutate(pre, last'.key, last'.value)
                   ELSE delete_mutate(pre, last'.key)
          IN  last'.res = Return(PyTrue)
                 => /\ m.exc = "none"
                    /\ fs'[P1] = json_dump(m.val)
                    /\ Holds(fs'[P1], m.val.d) ]_vars

\* A delete_data of the root key "" that left {"a": null}: a file shorter
\* than the one it replaced.
C18_Witness ==
    LET k == deserialize_key(last.key)
    IN  /\ last.op = "delete_data"
        /\ last.res = Return(PyTrue)
        /\ k.main_key = kE
        /\ k.subkeys = <<>>
        /\ fs[P1] = json_dump(Dict1(kA, None))

----------------------------------------------------------------------------
\* Further properties of the life of the handle, checked under SpecLife.

\* What a call of op gives on file content f.
OpOutcome(op, f, key, value) ==
    CASE op = "get_data" -> get_data(f, key)
      [] op = "set_data" -> set_data(f, key, value)
      [] op = "delete_data" -> delete_data(f, key)

\* C19: a construction made while an object exists returns that object,
\* whatever the path, and initialises it again: its path is the new path,
\* created_at the time of the call, last_accessed and last_modified None.
\* Every call made afterwards through a reference reads and writes the file
\* of the object's current path, and no other file.
C19_Reinitialised ==
    [][ /\ (clock' = clock + 1 /\ last'.op = "new" /\ Len(objs) > 0)
              => /\ last'.res = Return(Obj(1))
                 /\ objs'[1] = Handle(last'.key, clock', objs[1].shadowed)
                 /\ fs' = fs
        /\ (clock' = clock + 1 /\ last'.op \in {"get_data", "set_data", "delete_data"})
              => LET p == objs[1].path
                 IN  /\ \A q \in (DOMAIN fs) \ {p} : fs'[q] = fs[q]
                     /\ p \in DOMAIN fs =>
                           LET out == OpOutcome(last'.op, fs[p], last'.key, last'.value)
                           IN  last'.res = out.res /\ fs'[p] = out.file
                     /\ p \notin DOMAIN fs => last'.res.exc \in {"FileNotFoundError", "IsADirectoryError"}
      ]_vars

\* The handle wrote P1's file, then a construction bound it to P2: it is the
\* one object, on P2, and the time of its last modification is gone.
C19_Witness ==
    /\ last.op = "new"
    /\ last.key = P2
    /\ last.res = Return(Obj(1))
    /\ Len(objs) = 1
    /\ objs[1].path = P2
    /\ objs[1].created_at = clock
    /\ objs[1].last_modified = NoStamp
    /\ fs[P1] = json_dump(Dict1(kA, Y))

====
